---- MODULE Spec2Model ----
(***************************************************************************)
(* Model of research-paper-mcp (src/server.py): the tool listing, the      *)
(* tool dispatcher handle_call_tool and the six tool handlers, plus the    *)
(* two pure computations the handlers contain (sentence extraction in      *)
(* extract_insights, file-name sanitisation in download_paper).            *)
(*                                                                         *)
(* JSON argument values are abstracted to their Python type ("kind"); the  *)
(* outcome of a call is what leaves handle_call_tool: a returned JSON      *)
(* envelope, or an exception handed to the caller of handle_call_tool.     *)
(***************************************************************************)
EXTENDS Integers, Sequences, FiniteSets, TLC

VARIABLES
    served,       \* number of tool calls handled so far in this session
    request,      \* the last tool call: [name, arguments]
    response,     \* what left handle_call_tool for the last tool call
    upstream,     \* what the external services answered during the last tool call
    listing,      \* the result of the last list-tools request
    paper_text,   \* extract_insights: the text, a sequence of tokens
    insights,     \* extract_insights: the returned insights list
    paper_id,     \* download_paper: the paper_id string (a character sequence)
    pdf_path,     \* download_paper: the path computed from paper_id
    files         \* download_paper: the paths written to disk

vars == <<served, request, response, upstream, listing,
          paper_text, insights, paper_id, pdf_path, files>>

sessionVars == <<served, request, response, upstream, listing>>
insightVars == <<paper_text, insights>>
downloadVars == <<paper_id, pdf_path, files>>

(***************************************************************************)
(* Bounds of the model.                                                    *)
(***************************************************************************)
MaxCalls == 2

(***************************************************************************)
(* JSON values by Python type.  "absent" is a key the arguments object     *)
(* does not hold; "null" is a key holding None.                            *)
(***************************************************************************)
Kinds == {"absent", "null", "int", "str", "list", "dict"}

\* The outcome of an external call or of content-dependent code inside a
\* handler's try block: the HTTP status the upstream answers with, and
\* whether the external library (or the content of a value) raises.
Envs ==
    { [status |-> 200, fault |-> FALSE],
      [status |-> 404, fault |-> FALSE],
      [status |-> 200, fault |-> TRUE] }

handle_list_tools_reordered ==
    << [name |-> "search_semantic_scholar", required |-> {"query"}],
       [name |-> "search_arxiv", required |-> {"query"}],
       [name |-> "download_paper", required |-> {"url", "paper_id"}],
       [name |-> "extract_insights", required |-> {"paper_text"}],
       [name |-> "analyze_citations", required |-> {"paper_id"}],
       [name |-> "store_paper_knowledge",
        required |-> {"paper_metadata", "insights"}] >>

(***************************************************************************)
(* handle_list_tools: the announced tools, with their required fields.     *)
(***************************************************************************)
handle_list_tools ==
    << [name |-> "search_arxiv", required |-> {"query"}],
       [name |-> "search_semantic_scholar", required |-> {"query"}],
       [name |-> "download_paper", required |-> {"url", "paper_id"}],
       [name |-> "extract_insights", required |-> {"paper_text"}],
       [name |-> "analyze_citations", required |-> {"paper_id"}],
       [name |-> "store_paper_knowledge",
        required |-> {"paper_metadata", "insights"}] >>

\* The fields of each tool's arguments that its handler reads and branches on.
FieldsOf(name) ==
    CASE name = "search_arxiv" -> {"query"}
      [] name = "search_semantic_scholar" -> {"query", "fields"}
      [] name = "download_paper" -> {"url", "paper_id"}
      [] name = "extract_insights" -> {"paper_text"}
      [] name = "analyze_citations" -> {"paper_id"}
      [] name = "store_paper_knowledge" -> {"paper_metadata", "insights", "techniques"}
      [] OTHER -> {}

\* args.get(key, default): the kind of the value the handler works with.
Get(args, key, default) ==
    IF key \in DOMAIN args /\ args[key] # "absent" THEN args[key] ELSE default

(***************************************************************************)
(* Outcomes of handle_call_tool.                                           *)
(***************************************************************************)
\* json.dumps({"success": True, ...}) returned as the tool result
Success(handler, payload, effects) ==
    [kind |-> "return", success |-> TRUE, keys |-> {"success"} \cup payload,
     exc |-> "none", raised |-> FALSE, handler |-> handler, effects |-> effects]

\* the except-block of every handler, entered when its try block raised:
\* {"success": False, "error": str(e)}
Failure(handler, effects) ==
    [kind |-> "return", success |-> FALSE, keys |-> {"success", "error"},
     exc |-> "none", raised |-> TRUE, handler |-> handler, effects |-> effects]

\* an exception that leaves handle_call_tool: raised by a handler outside its
\* try block (handler names it), or by the dispatcher itself (handler "none")
Raise(handler, exc) ==
    [kind |-> "raise", success |-> FALSE, keys |-> {},
     exc |-> exc, raised |-> TRUE, handler |-> handler, effects |-> {}]

NoResponse ==
    [kind |-> "none", success |-> FALSE, keys |-> {},
     exc |-> "none", raised |-> FALSE, handler |-> "none", effects |-> {}]

(***************************************************************************)
(* The six handlers.                                                       *)
(***************************************************************************)
search_arxiv(args, env) ==
    \* lines 234-238 only read and format the arguments; whether the search of
    \* lines 250-257 raises is the arxiv library's answer
    IF env.fault
    THEN Failure("search_arxiv", {"net"})
    ELSE Success("search_arxiv", {"query", "count", "papers"}, {"net"})

search_semantic_scholar(args, env) ==
    LET fields == Get(args, "fields", "list") IN
    \* ",".join(fields) raises TypeError on a value that is not iterable
    IF fields \in {"null", "int"}
    THEN Failure("search_semantic_scholar", {})
    ELSE IF env.fault \/ env.status # 200
    THEN Failure("search_semantic_scholar", {"net"})
    ELSE Success("search_semantic_scholar", {"query", "count", "papers"}, {"net"})

download_paper(args, env) ==
    LET url == Get(args, "url", "empty")
        pid == Get(args, "paper_id", "str") IN
    \* re.sub raises TypeError when paper_id is no string
    IF pid # "str"
    THEN Failure("download_paper", {})
    \* session.get raises on a url that is no string and on the default "",
    \* before any request is sent
    ELSE IF url # "str"
    THEN Failure("download_paper", {})
    ELSE IF env.fault \/ env.status # 200
    THEN Failure("download_paper", {"net"})
    ELSE Success("download_paper", {"paper_id", "file_path", "size_bytes"},
                 {"net", "file"})

extract_insights(args, env) ==
    LET text == Get(args, "paper_text", "str") IN
    \* line 392, before the try block: len(paper_text)
    IF text \in {"null", "int"}
    THEN Raise("extract_insights", "TypeError")
    \* re.split raises TypeError on a list or a dict, inside the try block
    ELSE IF text # "str"
    THEN Failure("extract_insights", {})
    ELSE Success("extract_insights", {"insights", "focus_areas"}, {})

analyze_citations_any_status(args, env) ==
    IF env.fault
    THEN Failure("analyze_citations", {"net"})
    ELSE Success("analyze_citations", {"citation_graph"}, {"net"})

analyze_citations(args, env) ==
    \* lines 441-444 only read and format the arguments; a status other than
    \* 200 raises at line 476, inside the try block
    IF env.fault \/ env.status # 200
    THEN Failure("analyze_citations", {"net"})
    ELSE Success("analyze_citations", {"citation_graph"}, {"net"})

store_paper_knowledge(args, env) ==
    LET meta == Get(args, "paper_metadata", "dict")
        ins  == Get(args, "insights", "list")
        tech == Get(args, "techniques", "list") IN
    \* line 495, before the try block: paper_metadata.get('title', 'Unknown')
    IF meta # "dict"
    THEN Raise("store_paper_knowledge", "AttributeError")
    \* the list comprehensions of lines 508-509 need an iterable
    ELSE IF ins \in {"null", "int"} \/ tech \in {"null", "int"}
    THEN Failure("store_paper_knowledge", {})
    \* the content of paper_metadata (authors, title) can make lines 499-506 raise
    ELSE IF env.fault
    THEN Failure("store_paper_knowledge", {})
    ELSE Success("store_paper_knowledge",
                 {"entity_name", "observations_count", "message"}, {})

(***************************************************************************)
(* handle_call_tool: dispatch by name.                                     *)
(***************************************************************************)
handle_call_tool_misrouted(name, arguments, env) ==
    LET args == arguments IN
    CASE name = "search_arxiv" -> search_arxiv(args, env)
      [] name = "search_semantic_scholar" -> search_arxiv(args, env)
      [] name = "download_paper" -> download_paper(args, env)
      [] name = "extract_insights" -> extract_insights(args, env)
      [] name = "analyse_citations" -> analyze_citations(args, env)
      [] name = "store_paper_knowledge" -> store_paper_knowledge(args, env)
      [] OTHER -> Raise("none", "ValueError")

\* `arguments or {}`: None and {} both give the object with every key absent,
\* which is how the model writes both.
handle_call_tool(name, arguments, env) ==
    LET args == arguments IN
    CASE name = "search_arxiv" -> search_arxiv(args, env)
      [] name = "search_semantic_scholar" -> search_semantic_scholar(args, env)
      [] name = "download_paper" -> download_paper(args, env)
      [] name = "extract_insights" -> extract_insights(args, env)
      [] name = "analyze_citations" -> analyze_citations(args, env)
      [] name = "store_paper_knowledge" -> store_paper_knowledge(args, env)
      [] OTHER -> Raise("none", "ValueError")

(***************************************************************************)
(* extract_insights, lines 396-415: the sentence scan.                     *)
(*                                                                         *)
(* A text is a sequence of tokens [c, n]: c is the class of a run of n     *)
(* characters.  "term" is one of . ! ?, "ws" is one whitespace character,  *)
(* "key" is a key phrase in lower case ("novel"), "KEY" the same phrase in *)
(* upper case ("NOVEL"), "fill" is a run of other characters.              *)
(***************************************************************************)
MinLen == 50
MaxLen == 300
MaxInsights == 10

Tok(c, n) == [c |-> c, n |-> n]
Term == Tok("term", 1)
Ws == Tok("ws", 1)
Key == Tok("key", 5)
KEY == Tok("KEY", 5)
Fill(n) == Tok("fill", n)

\* the index of the first token at or after i that is not whitespace
RECURSIVE SkipWs(_, _)
SkipWs(text, i) ==
    IF i <= Len(text) /\ text[i].c = "ws" THEN SkipWs(text, i + 1) ELSE i

\* re.split(r'[.!?]\s+', text) from token i on, cur being the piece so far
RECURSIVE SplitFrom(_, _, _)
SplitFrom(text, i, cur) ==
    IF i > Len(text) THEN << cur >>
    ELSE IF text[i].c = "term" /\ i < Len(text) /\ text[i + 1].c = "ws"
    THEN << cur >> \o SplitFrom(text, SkipWs(text, i + 1), << >>)
    ELSE SplitFrom(text, i + 1, Append(cur, text[i]))

Split(text) == SplitFrom(text, 1, << >>)

\* len(sentence)
RECURSIVE StrLen(_)
StrLen(s) == IF s = << >> THEN 0 ELSE Head(s).n + StrLen(Tail(s))

\* sentence.lower(): upper-case letters become lower-case ones
Lower(s) == [i \in 1..Len(s) |-> IF s[i].c = "KEY" THEN Key ELSE s[i]]

\* any(phrase in sentence.lower() for phrase in key_phrases)
HasKeyPhrase(s) == \E i \in 1..Len(Lower(s)) : Lower(s)[i].c = "key"

\* sentence.strip()
RECURSIVE LStrip(_)
LStrip(s) == IF s # << >> /\ Head(s).c = "ws" THEN LStrip(Tail(s)) ELSE s

RECURSIVE RStrip(_)
RStrip(s) ==
    IF s # << >> /\ s[Len(s)].c = "ws" THEN RStrip(SubSeq(s, 1, Len(s) - 1)) ELSE s

Strip(s) == RStrip(LStrip(s))

\* lines 410-411: the two tests a sentence has to pass
Qualifies(s) == HasKeyPhrase(s) /\ StrLen(s) > MinLen /\ StrLen(s) < MaxLen

FullOneEarly(acc) == Len(acc) >= MaxInsights - 1

\* line 414: the test that ends the loop
Full(acc) == Len(acc) >= MaxInsights

\* the for loop of lines 409-415 from sentence i on, acc being the insights so far
RECURSIVE Scan(_, _, _)
Scan(sentences, i, acc) ==
    IF i > Len(sentences) THEN acc
    ELSE LET acc2 == IF Qualifies(sentences[i])
                     THEN Append(acc, Strip(sentences[i])) ELSE acc
         IN IF Full(acc2) THEN acc2 ELSE Scan(sentences, i + 1, acc2)

InsightsOf(text) == Scan(Split(text), 1, << >>)

(***************************************************************************)
(* download_paper, lines 351-352: the file name and the path.              *)
(*                                                                         *)
(* A string is a sequence of characters; a path is a record of its         *)
(* components (each a string) and whether it is absolute.                  *)
(***************************************************************************)
\* characters a paper_id is drawn from: a letter, a digit, the underscore, the
\* hyphen, the path separator, the dot, the backslash and the blank
Chars == {"a", "7", "_", "-", "/", ".", "\\", " "}

\* \w of the regular expression: letters, digits and the underscore
IsWord(ch) == ch \in {"a", "7", "_"}

UnsafeButPathChars(ch) == ~ (IsWord(ch) \/ ch = "-" \/ ch = "." \/ ch = "/")

\* [^\w\-]: the characters re.sub replaces
Unsafe(ch) == ~ (IsWord(ch) \/ ch = "-")

\* re.sub(r'[^\w\-]', '_', paper_id)
SafeId(id) == [i \in 1..Len(id) |-> IF Unsafe(id[i]) THEN "_" ELSE id[i]]

Pdf == <<".", "p", "d", "f">>

\* PAPERS_DIR (line 58), below the default base directory
PAPERS_DIR ==
    [absolute |-> TRUE,
     parts |-> << <<"m", "n", "t">>, <<"p", "a", "p", "e", "r", "s">> >>]

\* the components of a string split at "/", from character i on
RECURSIVE PartsFrom(_, _, _)
PartsFrom(name, i, cur) ==
    IF i > Len(name) THEN << cur >>
    ELSE IF name[i] = "/"
    THEN << cur >> \o PartsFrom(name, i + 1, << >>)
    ELSE PartsFrom(name, i + 1, Append(cur, name[i]))

\* pathlib drops empty components and "." components, and keeps ".."
KeptParts(name) ==
    SelectSeq(PartsFrom(name, 1, << >>), LAMBDA c : c # << >> /\ c # <<".">>)

\* PAPERS_DIR / name: an absolute right operand replaces the left one
PathJoin(base, name) ==
    IF name # << >> /\ name[1] = "/"
    THEN [absolute |-> TRUE, parts |-> KeptParts(name)]
    ELSE [absolute |-> base.absolute, parts |-> base.parts \o KeptParts(name)]

\* line 352: PAPERS_DIR / f"{safe_id}.pdf"
PdfPath(id) == PathJoin(PAPERS_DIR, SafeId(id) \o Pdf)

\* Tool names a peer may send: the six announced ones and two that are not.
RequestNames ==
    {"search_arxiv", "search_semantic_scholar", "download_paper",
     "extract_insights", "analyze_citations", "store_paper_knowledge",
     "summarize_paper", ""}

NoRequest == [name |-> "none", arguments |-> <<>>]

\* no external service has been asked yet
NoUpstream == [status |-> 0, fault |-> FALSE]

(***************************************************************************)
(* The session: tool calls and list-tools requests, in any order.          *)
(***************************************************************************)
InitSession ==
    /\ served = 0
    /\ request = NoRequest
    /\ response = NoResponse
    /\ upstream = NoUpstream
    /\ listing = <<>>

InitInsightsIdle ==
    /\ paper_text = <<>>
    /\ insights = <<>>

InitDownloadIdle ==
    /\ paper_id = <<>>
    /\ pdf_path = PAPERS_DIR
    /\ files = {}

Init ==
    /\ InitSession
    /\ InitInsightsIdle
    /\ InitDownloadIdle

CallTool ==
    /\ served < MaxCalls
    /\ \E name \in RequestNames :
       \E arguments \in [FieldsOf(name) -> Kinds] :
       \E env \in Envs :
          /\ request' = [name |-> name, arguments |-> arguments]
          /\ response' = handle_call_tool(name, arguments, env)
          /\ upstream' = env
    /\ served' = served + 1
    /\ UNCHANGED <<listing, insightVars, downloadVars>>

ListTools ==
    /\ listing' = handle_list_tools
    /\ UNCHANGED <<served, request, response, upstream, insightVars, downloadVars>>

Next ==
    \/ CallTool
    \/ ListTools

Spec == Init /\ [][Next]_vars

(***************************************************************************)
(* extract_insights on a string: the texts it is applied to.               *)
(***************************************************************************)
MaxLead == 11
MaxTail == 2

\* the i-th leading sentence: a qualifying sentence, each of its own length
LeadSentence(i) == << Fill(46 + i), Key, Term, Ws >>

RECURSIVE Lead(_)
Lead(k) == IF k = 0 THEN << >> ELSE Lead(k - 1) \o LeadSentence(k)

\* the shapes the rest of a text is built from
Shapes ==
    { << Fill(46), Key, Term, Ws >>,          \* 51 characters, key phrase
      << Fill(45), Key, Term, Ws >>,          \* 50 characters, key phrase
      << Fill(294), KEY, Term, Ws, Ws >>,     \* 299 characters, upper case
      << Fill(295), Key, Term, Ws >>,         \* 300 characters, key phrase
      << Ws, Fill(46), Key, Term >>,          \* blank first, no blank after "."
      << Fill(46), Key, Ws, Term, Ws >>,      \* blank before the "."
      << Fill(60), Term, Ws >> }              \* 60 characters, no key phrase

RECURSIVE Flatten(_)
Flatten(ss) == IF ss = << >> THEN << >> ELSE Head(ss) \o Flatten(Tail(ss))

Tails == UNION { [1..n -> Shapes] : n \in 0..MaxTail }

Texts == { Lead(k) \o Flatten(t) : k \in 0..MaxLead, t \in Tails }

InitInsights ==
    /\ InitSession
    /\ InitDownloadIdle
    /\ paper_text \in Texts
    /\ insights = << >>

\* extract_insights called with {"paper_text": paper_text}
ExtractInsights ==
    /\ served = 0
    /\ request' = [name |-> "extract_insights", arguments |-> [paper_text |-> "str"]]
    /\ response' = handle_call_tool("extract_insights", [paper_text |-> "str"],
                                    [status |-> 200, fault |-> FALSE])
    /\ upstream' = [status |-> 200, fault |-> FALSE]
    /\ insights' = InsightsOf(paper_text)
    /\ served' = served + 1
    /\ UNCHANGED <<listing, paper_text, downloadVars>>

NextInsights == ExtractInsights

SpecInsights == InitInsights /\ [][NextInsights]_vars

(***************************************************************************)
(* download_paper on a string paper_id.                                    *)
(***************************************************************************)
MaxIdLen == 3

Ids == UNION { [1..n -> Chars] : n \in 0..MaxIdLen }

InitDownload ==
    /\ InitSession
    /\ InitInsightsIdle
    /\ paper_id \in Ids
    /\ pdf_path = PAPERS_DIR
    /\ files = {}

\* download_paper called with {"url": <a string>, "paper_id": paper_id}
DownloadPaper ==
    /\ served = 0
    /\ \E env \in Envs :
        LET args == [url |-> "str", paper_id |-> "str"]
            out == handle_call_tool("download_paper", args, env)
        IN /\ request' = [name |-> "download_paper", arguments |-> args]
           /\ response' = out
           /\ upstream' = env
           /\ pdf_path' = PdfPath(paper_id)
           /\ files' = IF "file" \in out.effects THEN files \cup {PdfPath(paper_id)}
                       ELSE files
    /\ served' = served + 1
    /\ UNCHANGED <<listing, paper_id, insightVars>>

NextDownload == DownloadPaper

SpecDownload == InitDownload /\ [][NextDownload]_vars

(***************************************************************************)
(* Properties.                                                             *)
(***************************************************************************)
\* {"success": false, "error": <string>}
IsFailureEnvelope(r) ==
    r.kind = "return" /\ r.success = FALSE /\ {"success", "error"} \subseteq r.keys

\* {"success": true, <payload fields>}
IsSuccessEnvelope(r) ==
    r.kind = "return" /\ r.success = TRUE /\ "success" \in r.keys /\ "error" \notin r.keys

\* the names the listing announces
ListedNames == { handle_list_tools[i].name : i \in 1..Len(handle_list_tools) }

\* the fields the listing marks required for a tool
RequiredOf(name) ==
    UNION { handle_list_tools[i].required :
              i \in { j \in 1..Len(handle_list_tools) : handle_list_tools[j].name = name } }

\* C1: whenever the handler of a tool call raised, at any point of its body,
\* the call ends in a Failure envelope.
C1_RaisingHandlerGivesFailure ==
    (served > 0 /\ response.handler # "none" /\ response.raised)
        => IsFailureEnvelope(response)

\* C2: a call naming a tool that is not registered ends in a Failure envelope.
C2_UnknownToolGivesFailure ==
    (served > 0 /\ request.name \notin ListedNames) => IsFailureEnvelope(response)

\* C3: a call whose arguments lack a required field ends in a Failure envelope,
\* no handler is invoked and no side effect happens.
C3_MissingFieldRejected ==
    (/\ served > 0
     /\ request.name \in ListedNames
     /\ \E f \in RequiredOf(request.name) :
            f \notin DOMAIN request.arguments \/ request.arguments[f] = "absent")
        => /\ IsFailureEnvelope(response)
           /\ response.handler = "none"
           /\ response.effects = {}

\* C5: every listing holds exactly the six registered tools, once each, in
\* registration order, and a later listing equals an earlier one whatever
\* tool calls happened in between.
C5_ListingIsRegistry ==
    [][ /\ listing' # << >> =>
            [i \in 1..Len(listing') |-> listing'[i].name] =
                << "search_arxiv", "search_semantic_scholar", "download_paper",
                   "extract_insights", "analyze_citations", "store_paper_knowledge" >>
        /\ listing # << >> => listing' = listing ]_vars

C5_Witness == listing # << >> /\ served = MaxCalls

\* C7: every tool call ends in one of the two envelope shapes.
C7_AlwaysAnEnvelope ==
    served > 0 => (IsSuccessEnvelope(response) \/ IsFailureEnvelope(response))

\* the sentences extract_insights scans
Sentences == Split(paper_text)

\* the number of qualifying sentences before sentence i
QualifyingBefore(i) == Cardinality({ j \in 1..(i - 1) : Qualifies(Sentences[j]) })

Listed(s) == \E j \in 1..Len(insights) : insights[j] = Strip(s)

\* C9 as stated: every sentence with a key phrase and a length between 50 and
\* 300 is in the returned insights, wherever it stands and however many
\* qualifying sentences precede it.
C9_EveryQualifyingSentenceListed ==
    (served > 0 /\ IsSuccessEnvelope(response)) =>
        \A i \in 1..Len(Sentences) : Qualifies(Sentences[i]) => Listed(Sentences[i])

\* C9 amended: every sentence with a key phrase and a length above 50 and
\* below 300 that fewer than 10 qualifying sentences precede is in the
\* returned insights (stripped of blanks at its ends).
C9_FirstTenQualifyingListed ==
    (served > 0 /\ IsSuccessEnvelope(response)) =>
        \A i \in 1..Len(Sentences) :
            (Qualifies(Sentences[i]) /\ QualifyingBefore(i) < 10)
                => Listed(Sentences[i])

C9_Witness ==
    /\ served > 0
    /\ Len(insights) = 10
    /\ \E i \in 1..Len(Sentences) :
          /\ Qualifies(Sentences[i])
          /\ QualifyingBefore(i) = 9
          /\ Sentences[i] # Strip(Sentences[i])
          /\ Listed(Sentences[i])

\* C10: the file name derived from paper_id holds only word characters, "-"
\* and "_" before ".pdf", and the path (also of every file written) is a direct
\* child of the papers directory.
C10_PathStaysInPapersDir ==
    served > 0 =>
        LET n == Len(PAPERS_DIR.parts)
            parts == pdf_path.parts
        IN /\ pdf_path.absolute
           /\ Len(parts) = n + 1
           /\ SubSeq(parts, 1, n) = PAPERS_DIR.parts
           /\ LET f == parts[n + 1]
              IN /\ Len(f) = Len(paper_id) + 4
                 /\ SubSeq(f, Len(f) - 3, Len(f)) = <<".", "p", "d", "f">>
                 /\ \A i \in 1..(Len(f) - 4) : f[i] \in {"a", "7", "_", "-"}
           /\ \A p \in files : p = pdf_path

C10_Witness ==
    /\ served > 0
    /\ files # {}
    /\ \E i, j \in 1..Len(paper_id) : paper_id[i] = "/" /\ paper_id[j] = "."

\* C11: when the upstream citation source answers an analyze_citations call
\* with a status other than 200, the call returns a Failure envelope and no
\* exception leaves the handler.
C11_Non200GivesFailure ==
    (/\ served > 0
     /\ request.name = "analyze_citations"
     /\ upstream.status # 200)
        => /\ response.kind = "return"
           /\ response.exc = "none"
           /\ response.handler = "analyze_citations"
           /\ response.success = FALSE
           /\ response.keys = {"success", "error"}

C11_Witness ==
    /\ served > 0
    /\ request.name = "analyze_citations"
    /\ upstream.status = 404
    /\ "net" \in response.effects
    /\ IsFailureEnvelope(response)

\* the names a listing announces
NamesIn(l) == { l[i].name : i \in 1..Len(l) }

\* C12: the names the listing announces are exactly the names the dispatcher
\* routes to a handler: a call naming a listed tool reaches that tool's own
\* handler, and a call naming anything else takes the unknown-tool path.
C12_ListedIffDispatched ==
    (served > 0 /\ listing # << >>) =>
        /\ request.name \in NamesIn(listing) => response.handler = request.name
        /\ request.name \notin NamesIn(listing) =>
              /\ response.handler = "none"
              /\ response.kind = "raise"
              /\ response.exc = "ValueError"

C12_Witness ==
    /\ served = MaxCalls
    /\ listing # << >>
    /\ request.name = "store_paper_knowledge"
    /\ response.handler = "store_paper_knowledge"

====
